---- MODULE Spec2Model ----
(***************************************************************************)
(* Run-lifecycle tracker of main.py: the pipeline_runs table, the POST     *)
(* /run, GET /runs and GET /status handlers, and the background task       *)
(* run_pipeline_task that executes `meltano el` and records the outcome.   *)
(*                                                                         *)
(* Scheduling.  Every handler and run_pipeline_task itself are `async def` *)
(* coroutines of one event loop, and none of them contains an `await`:     *)
(* once run_pipeline_task has started (line 89) nothing else of the        *)
(* process runs until it has ended (line 145), the blocking                *)
(* process.communicate() of line 108 included.  What can still happen in   *)
(* the middle of a task is outside the process: the executor runs, time    *)
(* passes, a client sends a request (which waits), the process is killed.  *)
(*                                                                         *)
(* Text is modelled as a sequence of tokens (strings); a nullable Text     *)
(* column is a record [null, text].                                        *)
(***************************************************************************)
EXTENDS Integers, Sequences, FiniteSets, TLC

\* ---------------------------------------------------------------- bounds
MaxRuns == 2        \* POST /run requests accepted
MaxTime == 1        \* readings of datetime.utcnow()
MaxCrashes == 1     \* kills of the hosting process

RunIds == 1..MaxRuns
\* ids a client may ask about: the ids of records and one id never assigned
AskIds == 1..(MaxRuns + 1)

\* ------------------------------------------------------------- the table
None == [null |-> TRUE, text |-> << >>]
Text(s) == [null |-> FALSE, text |-> s]

\* class PipelineRun: one row of pipeline_runs
PipelineRun(id, t, st) ==
    [id |-> id, start_time |-> t, status |-> st, output |-> None]

Terminal == {"completed", "failed"}
Statuses == {"started"} \cup Terminal

\* ---------------------------------------------------------- the executor
\* process.returncode of `meltano el ...`
ExitCodes == {0, 1, 2}
\* what the executor wrote on stderr; "ESC[0m" stands for an ANSI sequence
Stderrs == { <<"log">>, <<"ESC[0m", "log">> }

ToStr(n) == <<"0", "1", "2", "3", "4", "5", "6", "7", "8", "9">>[n + 1]

\* clean_ansi: ansi_escape.sub('', text)
clean_ansi(text) ==
    LET keep(tok) == tok # "ESC[0m" IN SelectSeq(text, keep)

\* get_data_summary.  `text` is never imported by main.py, so line 48 raises
\* NameError on every call; the other outcomes are those of the two queries.
QueryOutcomes == {"raises"}
get_data_summary(outcome) ==
    CASE outcome = "raises" -> <<"Error analyzing data: ", "name 'text' is not defined">>
      [] outcome = "empty"  -> <<"No records found in the data table">>
      [] OTHER              -> <<"Data Summary:", "Top Products by Revenue:">>

\* the three texts run_pipeline_task stores
FailedOutput(clean_output) == <<"Error:\n">> \o clean_output
CompletedOutput(data_summary, clean_output) ==
    <<"Pipeline Execution Summary:", "Status: Completed Successfully",
      "Timestamp: utcnow">> \o data_summary \o <<"Execution Log:">> \o clean_output
ExceptOutput(e) == <<"Error during pipeline execution: ">> \o e

VARIABLES
    pipeline_runs,  \* the table, in insertion order
    up,             \* the hosting process is running
    now,            \* the last reading of datetime.utcnow() by an insert
    pc,             \* pc[i]: where run_pipeline_task(i) is
    returncode,     \* returncode[i]: process.returncode, -1 when there is none
    clean_output,   \* clean_output[i] of the task, << >> outside lines 109-145
    exc,            \* exc[i]: str(e) of the exception in flight, << >> when none
    writes,         \* writes[i]: commits that set a terminal status on record i
    raised,         \* raised[i]: the calls of task i that raised an exception
    tasks,          \* tasks[i]: run_pipeline_task(i) added to background_tasks
    popens,         \* popens[i]: subprocess.Popen calls of task i
    request,        \* the GET /status request a client has sent, not yet answered;
                    \* executing: the run's executor was running when it was sent
    response,       \* the HTTP response sent by the last step, if it sent one
    crashes,        \* kills of the hosting process so far
    page            \* the polling of the HTML page: updateStatus(run_id)

vars == <<pipeline_runs, up, now, pc, returncode, clean_output, exc, writes,
          raised, tasks, popens, request, response, crashes, page>>

\* positions of run_pipeline_task
InTask == {"loaded", "found", "running", "exited", "except"}
Ended == {"returned", "raised"}

\* the event loop is inside a task: no handler and no other task runs
LoopBusy == \E i \in RunIds : pc[i] \in InTask

NoRequest == [run_id |-> 0, executing |-> FALSE]
NoResponse == [kind |-> "none", run_id |-> 0, status |-> "", start_time |-> 0,
               output |-> None, runs |-> << >>, executing |-> FALSE]

\* the page has not called updateStatus; otherwise state is "due" (the call
\* or its timer is pending), "fetch" (the request of line 212 is in flight;
\* epoch is the number of the process it reached, -1 when none was running)
\* or "stopped" (no timer is pending)
NoPage == [state |-> "closed", run_id |-> 0, epoch |-> 0]

\* db.query(PipelineRun).get(run_id): the index of the row, 0 when absent
Get(run_id) ==
    IF \E k \in 1..Len(pipeline_runs) : pipeline_runs[k].id = run_id
    THEN CHOOSE k \in 1..Len(pipeline_runs) : pipeline_runs[k].id = run_id
    ELSE 0

Row(run_id) == pipeline_runs[Get(run_id)]

\* faulty variant: the update is not restricted to the task's own row
CommitEveryRow(run_id, st, out) ==
    [k \in 1..Len(pipeline_runs) |->
        [pipeline_runs[k] EXCEPT !.status = st, !.output = Text(out)]]

\* faulty variant: the status is committed without the output
CommitStatusOnly(run_id, st, out) ==
    [pipeline_runs EXCEPT ![Get(run_id)].status = st]

\* pipeline_run.status = st; pipeline_run.output = out; db.commit()
Commit(run_id, st, out) ==
    [pipeline_runs EXCEPT ![Get(run_id)].status = st,
                          ![Get(run_id)].output = Text(out)]

Init ==
    /\ pipeline_runs = << >>
    /\ up = TRUE
    /\ now = 0
    /\ pc = [i \in RunIds |-> "none"]
    /\ returncode = [i \in RunIds |-> -1]
    /\ clean_output = [i \in RunIds |-> << >>]
    /\ exc = [i \in RunIds |-> << >>]
    /\ writes = [i \in RunIds |-> 0]
    /\ raised = [i \in RunIds |-> {}]
    /\ tasks = [i \in RunIds |-> 0]
    /\ popens = [i \in RunIds |-> 0]
    /\ request = NoRequest
    /\ response = NoResponse
    /\ crashes = 0
    /\ page = NoPage

\* faulty variant: the key of the newest row is handed out again
NextIdReusesLast == IF pipeline_runs = << >> THEN 1 ELSE Len(pipeline_runs)

\* the primary key the store assigns to a new row
NextId == Len(pipeline_runs) + 1

\* faulty variant: the task is added for a row that was never committed
run_pipelineWithoutCommit ==
    /\ up /\ ~LoopBusy
    /\ Len(pipeline_runs) < MaxRuns
    /\ LET id == NextId IN
       /\ tasks[id] = 0
       /\ tasks' = [tasks EXCEPT ![id] = @ + 1]
       /\ pc' = [pc EXCEPT ![id] = "scheduled"]
       /\ response' = [NoResponse EXCEPT !.kind = "run", !.run_id = id]
    /\ UNCHANGED <<page, pipeline_runs, now, raised, up, returncode, clean_output,
                   exc, writes, popens, request, crashes>>

\* POST /run
run_pipeline ==
    /\ up /\ ~LoopBusy
    /\ Len(pipeline_runs) < MaxRuns
    /\ \E t \in now..MaxTime : now' = t
    /\ LET id == NextId IN
       /\ pipeline_runs' = Append(pipeline_runs, PipelineRun(id, now', "started"))
       /\ tasks' = [tasks EXCEPT ![id] = @ + 1]
       /\ pc' = [pc EXCEPT ![id] = "scheduled"]
       /\ response' = [NoResponse EXCEPT !.kind = "run", !.run_id = id]
    /\ UNCHANGED <<page, raised, up, returncode, clean_output, exc, writes, popens,
                   request, crashes>>

\* faulty variant: the rows come back in ascending order of start_time
OldestFirst(rows) ==
    \A a, b \in 1..Len(rows) : a < b => rows[a].start_time <= rows[b].start_time

\* GET /runs: order_by(start_time.desc()); rows of equal start_time come in
\* an order the store chooses
NewestFirst(rows) ==
    \A a, b \in 1..Len(rows) : a < b => rows[a].start_time >= rows[b].start_time

Orderings ==
    LET n == Len(pipeline_runs) IN
    { [k \in 1..n |-> pipeline_runs[f[k]]] :
        f \in { g \in [1..n -> 1..n] : \A a, b \in 1..n : a # b => g[a] # g[b] } }

get_runs ==
    /\ up /\ ~LoopBusy
    /\ \E rows \in { r \in Orderings : NewestFirst(r) } :
         response' = [NoResponse EXCEPT !.kind = "runs", !.runs = rows]
    /\ UNCHANGED <<page, raised, pipeline_runs, up, now, pc, returncode, clean_output, exc,
                   writes, tasks, popens, request, crashes>>

\* GET /: the static HTML page
root ==
    /\ up /\ ~LoopBusy
    /\ response' = [NoResponse EXCEPT !.kind = "html"]
    /\ UNCHANGED <<page, raised, pipeline_runs, up, now, pc, returncode, clean_output, exc,
                   writes, tasks, popens, request, crashes>>

\* the executor of run i is running: communicate() has not returned
Executing(i) == i \in RunIds /\ pc[i] = "running"

\* a client sends GET /status/{run_id}; the request waits for the event loop
SendStatus(run_id) ==
    /\ up
    /\ request = NoRequest
    /\ request' = [run_id |-> run_id, executing |-> Executing(run_id)]
    /\ response' = NoResponse
    /\ UNCHANGED <<page, raised, pipeline_runs, up, now, pc, returncode, clean_output, exc,
                   writes, tasks, popens, crashes>>

\* faulty variant: the lookup result is used without the `if not pipeline_run`
\* test, so an absent record ends in an unhandled exception
StatusPayloadUnchecked(run_id, executing) ==
    IF Get(run_id) = 0
    THEN [NoResponse EXCEPT !.kind = "exception", !.executing = executing]
    ELSE LET pipeline_run == Row(run_id) IN
         [NoResponse EXCEPT !.kind = "status",
                            !.run_id = pipeline_run.id,
                            !.status = pipeline_run.status,
                            !.start_time = pipeline_run.start_time,
                            !.output = pipeline_run.output,
                            !.executing = executing]

\* lines 535-544: what GET /status/{run_id} returns; kind "error" is the
\* payload {"error": "Run not found"}
StatusPayload(run_id, executing) ==
    IF Get(run_id) = 0
    THEN [NoResponse EXCEPT !.kind = "error", !.executing = executing]
    ELSE LET pipeline_run == Row(run_id) IN
         [NoResponse EXCEPT !.kind = "status",
                            !.run_id = pipeline_run.id,
                            !.status = pipeline_run.status,
                            !.start_time = pipeline_run.start_time,
                            !.output = pipeline_run.output,
                            !.executing = executing]

\* faulty variant: the read fails a started record that has no live task
get_statusReconciles ==
    /\ up /\ ~LoopBusy
    /\ request # NoRequest
    /\ response' = StatusPayload(request.run_id, request.executing)
    /\ request' = NoRequest
    /\ pipeline_runs' =
         IF /\ Get(request.run_id) # 0
            /\ Row(request.run_id).status = "started"
            /\ pc[request.run_id] = "killed"
         THEN Commit(request.run_id, "failed", <<"orphaned">>)
         ELSE pipeline_runs
    /\ UNCHANGED <<page, raised, up, now, pc, returncode, clean_output, exc,
                   writes, tasks, popens, crashes>>

\* GET /status/{run_id}
get_status ==
    /\ up /\ ~LoopBusy
    /\ request # NoRequest
    /\ response' = StatusPayload(request.run_id, request.executing)
    /\ request' = NoRequest
    /\ UNCHANGED <<page, raised, pipeline_runs, up, now, pc, returncode, clean_output, exc,
                   writes, tasks, popens, crashes>>

\* ------------------------------------------------ run_pipeline_task(run_id)
\* lines 89-92: the background task starts and loads its record
TaskStart(i) ==
    /\ up /\ ~LoopBusy
    /\ pc[i] = "scheduled"
    /\ pc' = [pc EXCEPT ![i] = "loaded"]
    /\ response' = NoResponse
    /\ UNCHANGED <<page, raised, pipeline_runs, up, now, returncode, clean_output, exc, writes,
                   tasks, popens, request, crashes>>

\* lines 95-96: Project.find() returns the project or raises
ProjectFind(i) ==
    /\ up
    /\ pc[i] = "loaded"
    /\ \/ /\ pc' = [pc EXCEPT ![i] = "found"]
          /\ UNCHANGED <<exc, raised>>
       \/ /\ pc' = [pc EXCEPT ![i] = "except"]
          /\ exc' = [exc EXCEPT ![i] = <<"ProjectNotFoundError">>]
          /\ raised' = [raised EXCEPT ![i] = @ \cup {"Project.find"}]
    /\ response' = NoResponse
    /\ UNCHANGED <<page, pipeline_runs, up, now, returncode, clean_output, writes,
                   tasks, popens, request, crashes>>

\* lines 99-106: subprocess.Popen starts the executor or raises
Popen(i) ==
    /\ up
    /\ pc[i] = "found"
    /\ popens' = [popens EXCEPT ![i] = @ + 1]
    /\ \/ /\ pc' = [pc EXCEPT ![i] = "running"]
          /\ UNCHANGED <<exc, raised>>
       \/ /\ pc' = [pc EXCEPT ![i] = "except"]
          /\ exc' = [exc EXCEPT ![i] = <<"FileNotFoundError: meltano">>]
          /\ raised' = [raised EXCEPT ![i] = @ \cup {"subprocess.Popen"}]
    /\ response' = NoResponse
    /\ UNCHANGED <<page, pipeline_runs, up, now, returncode, clean_output, writes,
                   tasks, request, crashes>>

\* lines 108-109: the executor exits; communicate() returns
Communicate(i) ==
    /\ up
    /\ pc[i] = "running"
    /\ \E rc \in ExitCodes, stderr \in Stderrs :
         /\ returncode' = [returncode EXCEPT ![i] = rc]
         /\ clean_output' = [clean_output EXCEPT ![i] = clean_ansi(stderr)]
    /\ pc' = [pc EXCEPT ![i] = "exited"]
    /\ response' = NoResponse
    /\ UNCHANGED <<page, raised, pipeline_runs, up, now, exc, writes, tasks, popens, request, crashes>>

\* lines 111-116: nonzero return code
Failed(i) ==
    /\ up
    /\ pc[i] = "exited"
    /\ returncode[i] # 0
    /\ pipeline_runs' = Commit(i, "failed", FailedOutput(clean_output[i]))
    /\ writes' = [writes EXCEPT ![i] = @ + 1]
    /\ exc' = [exc EXCEPT ![i] =
                 <<"Pipeline failed with return code ", ToStr(returncode[i])>>]
    /\ pc' = [pc EXCEPT ![i] = "except"]
    /\ response' = NoResponse
    /\ UNCHANGED <<page, raised, up, now, returncode, clean_output, tasks, popens, request, crashes>>

\* faulty variant: the success branch does not depend on the return code
CompletedAnyExitCode(i) ==
    /\ up
    /\ pc[i] = "exited"
    /\ \E outcome \in QueryOutcomes :
         /\ pipeline_runs' = Commit(i, "completed",
               CompletedOutput(get_data_summary(outcome), clean_output[i]))
         /\ raised' = [raised EXCEPT ![i] =
                         IF outcome = "raises" THEN @ \cup {"get_data_summary"} ELSE @]
    /\ writes' = [writes EXCEPT ![i] = @ + 1]
    /\ pc' = [pc EXCEPT ![i] = "returned"]
    /\ clean_output' = [clean_output EXCEPT ![i] = << >>]
    /\ response' = NoResponse
    /\ UNCHANGED <<page, up, now, returncode, exc, tasks, popens, request, crashes>>

\* lines 118-134 and 144-145: return code 0
Completed(i) ==
    /\ up
    /\ pc[i] = "exited"
    /\ returncode[i] = 0
    /\ \E outcome \in QueryOutcomes :
         /\ pipeline_runs' = Commit(i, "completed",
               CompletedOutput(get_data_summary(outcome), clean_output[i]))
         /\ raised' = [raised EXCEPT ![i] =
                         IF outcome = "raises" THEN @ \cup {"get_data_summary"} ELSE @]
    /\ writes' = [writes EXCEPT ![i] = @ + 1]
    /\ pc' = [pc EXCEPT ![i] = "returned"]
    /\ clean_output' = [clean_output EXCEPT ![i] = << >>]
    /\ response' = NoResponse
    /\ UNCHANGED <<page, up, now, returncode, exc, tasks, popens, request, crashes>>

\* faulty variant: the handler re-raises without recording the failure
ExceptWithoutCommit(i) ==
    /\ up
    /\ pc[i] = "except"
    /\ pc' = [pc EXCEPT ![i] = "raised"]
    /\ clean_output' = [clean_output EXCEPT ![i] = << >>]
    /\ exc' = [exc EXCEPT ![i] = << >>]
    /\ response' = NoResponse
    /\ UNCHANGED <<page, pipeline_runs, writes, raised, up, now, returncode, tasks,
                   popens, request, crashes>>

\* faulty variant: the handler records the failure and swallows the exception
ExceptSwallows(i) ==
    /\ up
    /\ pc[i] = "except"
    /\ pipeline_runs' = Commit(i, "failed", ExceptOutput(exc[i]))
    /\ writes' = [writes EXCEPT ![i] = @ + 1]
    /\ pc' = [pc EXCEPT ![i] = "returned"]
    /\ clean_output' = [clean_output EXCEPT ![i] = << >>]
    /\ exc' = [exc EXCEPT ![i] = << >>]
    /\ response' = NoResponse
    /\ UNCHANGED <<page, raised, up, now, returncode, tasks, popens, request, crashes>>

\* lines 136-145: the handler records the failure and re-raises
Except(i) ==
    /\ up
    /\ pc[i] = "except"
    /\ pipeline_runs' = Commit(i, "failed", ExceptOutput(exc[i]))
    /\ writes' = [writes EXCEPT ![i] = @ + 1]
    /\ pc' = [pc EXCEPT ![i] = "raised"]
    /\ clean_output' = [clean_output EXCEPT ![i] = << >>]
    /\ exc' = [exc EXCEPT ![i] = << >>]
    /\ response' = NoResponse
    /\ UNCHANGED <<page, raised, up, now, returncode, tasks, popens, request, crashes>>

\* --------------------------------------------------------- the environment
\* the hosting process is killed: its tasks and open connections are gone
Crash ==
    /\ up
    /\ crashes < MaxCrashes
    /\ up' = FALSE
    /\ crashes' = crashes + 1
    /\ pc' = [i \in RunIds |->
                IF pc[i] \in InTask \cup {"scheduled"} THEN "killed" ELSE pc[i]]
    /\ returncode' = [i \in RunIds |-> IF pc[i] \in Ended THEN returncode[i] ELSE -1]
    /\ clean_output' = [i \in RunIds |-> << >>]
    /\ exc' = [i \in RunIds |-> << >>]
    /\ request' = NoRequest
    /\ response' = NoResponse
    /\ UNCHANGED <<page, raised, pipeline_runs, now, writes, tasks, popens>>

\* faulty variant: a reconciliation pass at startup fails the runs left started
StartupReconciles ==
    /\ ~up
    /\ up' = TRUE
    /\ pipeline_runs' =
         [k \in 1..Len(pipeline_runs) |->
             IF pipeline_runs[k].status = "started"
             THEN [pipeline_runs[k] EXCEPT !.status = "failed",
                                           !.output = Text(<<"orphaned">>)]
             ELSE pipeline_runs[k]]
    /\ response' = NoResponse
    /\ UNCHANGED <<page, raised, now, pc, returncode, clean_output, exc, writes, tasks,
                   popens, request, crashes>>

\* lines 22-35: the module is loaded again; create_all keeps an existing table
Startup ==
    /\ ~up
    /\ up' = TRUE
    /\ response' = NoResponse
    /\ UNCHANGED <<page, raised, pipeline_runs, now, pc, returncode, clean_output, exc, writes,
                   tasks, popens, request, crashes>>

TaskStep(i) ==
    \/ TaskStart(i)
    \/ ProjectFind(i)
    \/ Popen(i)
    \/ Communicate(i)
    \/ Failed(i)
    \/ Completed(i)
    \/ Except(i)

Serve ==
    \/ root
    \/ run_pipeline
    \/ get_runs
    \/ get_status
    \/ \E run_id \in AskIds : SendStatus(run_id)
    \/ \E i \in RunIds : TaskStep(i)

Next ==
    \/ Serve
    \/ Crash
    \/ Startup

Spec == Init /\ [][Next]_vars

\* ------------------------------------------------------- the HTML page
\* lines 198-201: startPipeline has the response to its POST /run and calls
\* updateStatus(data.run_id)
startPipeline ==
    /\ response.kind = "run"
    /\ page.state = "closed"
    /\ page' = [state |-> "due", run_id |-> response.run_id, epoch |-> 0]
    /\ response' = NoResponse
    /\ UNCHANGED <<pipeline_runs, up, now, pc, returncode, clean_output, exc,
                   writes, raised, tasks, popens, request, crashes>>

\* lines 208-212: updateStatus sends GET /status/{runId}
updateStatus_fetch ==
    /\ page.state = "due"
    /\ page' = [page EXCEPT !.state = "fetch",
                            !.epoch = IF up THEN crashes ELSE -1]
    /\ response' = NoResponse
    /\ UNCHANGED <<pipeline_runs, up, now, pc, returncode, clean_output, exc,
                   writes, raised, tasks, popens, request, crashes>>

\* lines 213-229: the request is answered; another poll is scheduled when
\* data.status is 'started'
updateStatus_then ==
    /\ page.state = "fetch"
    /\ up /\ ~LoopBusy /\ page.epoch = crashes
    /\ LET data == StatusPayload(page.run_id, FALSE) IN
       /\ response' = data
       /\ page' = [page EXCEPT !.state =
                      IF data.kind = "status" /\ data.status = "started"
                      THEN "due" ELSE "stopped"]
    /\ UNCHANGED <<pipeline_runs, up, now, pc, returncode, clean_output, exc,
                   writes, raised, tasks, popens, request, crashes>>

\* lines 230-232: the request fails (the process it was sent to is gone);
\* the catch block logs the error
updateStatus_catch ==
    /\ page.state = "fetch"
    /\ ~up \/ page.epoch # crashes
    /\ page' = [page EXCEPT !.state = "stopped"]
    /\ response' = NoResponse
    /\ UNCHANGED <<pipeline_runs, up, now, pc, returncode, clean_output, exc,
                   writes, raised, tasks, popens, request, crashes>>

PageNext ==
    \/ Next
    \/ startPipeline
    \/ updateStatus_fetch
    \/ updateStatus_then
    \/ updateStatus_catch

\* the service together with one page polling the run it has started
PageSpec == Init /\ [][PageNext]_vars

\* no kill of the process; every scheduled task gets the event loop and the
\* executor exits
LiveSpec ==
    /\ Init
    /\ [][Serve]_vars
    /\ \A i \in RunIds : WF_vars(TaskStep(i))

\* ------------------------------------------------------------ the claims
\* the committed fields of record run_id
Exists(run_id) == Get(run_id) # 0
Status(run_id) == IF Exists(run_id) THEN Row(run_id).status ELSE "absent"
Output(run_id) == IF Exists(run_id) THEN Row(run_id).output ELSE None

\* C1: with the executor exiting and the process not killed, every created
\* run's record eventually carries completed for ever or failed for ever:
\* run i is never created, or its status is completed from some point on, or
\* it is failed from some point on.
C1_EventuallyTerminal ==
    \A i \in RunIds :
        \/ [](~Exists(i))
        \/ <>[](Status(i) = "completed")
        \/ <>[](Status(i) = "failed")

C1_Witness ==
    \E i \in RunIds : pc[i] \in Ended /\ Status(i) \in Terminal

\* C2: when run_pipeline_task(i) has ended, exactly one commit has set a
\* terminal status and output on record i.
C2_OneTerminalWrite ==
    \A i \in RunIds : pc[i] \in Ended => writes[i] = 1

\* C3: once a committed record has a terminal status, its stored output
\* never changes.
C3_OutputWrittenOnce ==
    [][\A k \in 1..Len(pipeline_runs) :
          pipeline_runs[k].status \in Terminal
              => pipeline_runs'[k].output = pipeline_runs[k].output]_vars

\* C4: every committed status is started, completed or failed, and the only
\* status changes are started -> completed and started -> failed.
C4_StatusMonotonic ==
    /\ [](\A k \in 1..Len(pipeline_runs) : pipeline_runs[k].status \in Statuses)
    /\ [][\A k \in 1..Len(pipeline_runs) :
            pipeline_runs'[k].status # pipeline_runs[k].status
                => /\ pipeline_runs[k].status = "started"
                   /\ pipeline_runs'[k].status \in Terminal]_vars

C4_Witness ==
    /\ \E i \in RunIds : pc[i] = "raised" /\ Status(i) = "failed"
    /\ \E i \in RunIds : pc[i] = "returned" /\ Status(i) = "completed"

\* the stored text names a failure: the handler's message or "Error:" and stderr
FailureIndication(out) ==
    /\ ~out.null
    /\ \E k \in 1..Len(out.text) :
         out.text[k] \in {"Error:\n", "Pipeline failed with return code "}

\* C5: a task that ended after exit code 0 leaves its record completed with a
\* non-empty output, one that ended after a nonzero exit code leaves it failed
\* with an output naming the failure; no record is completed after a nonzero
\* exit code.
C5_StatusFollowsExitCode ==
    \A i \in RunIds :
        /\ (pc[i] \in Ended /\ returncode[i] = 0)
              => /\ Status(i) = "completed"
                 /\ ~Output(i).null /\ Len(Output(i).text) > 0
        /\ (pc[i] \in Ended /\ returncode[i] > 0)
              => Status(i) = "failed" /\ FailureIndication(Output(i))
        /\ Status(i) = "completed" => returncode[i] = 0

C5_Witness ==
    /\ \E i \in RunIds : pc[i] \in Ended /\ returncode[i] = 0
    /\ \E i \in RunIds : pc[i] \in Ended /\ returncode[i] = 2

\* C6: a task in which locating the project, spawning the executor or
\* building the data summary raised ends with its record failed and a
\* message in output.
C6_ExceptionsEndFailed ==
    \A i \in RunIds :
        (pc[i] \in Ended /\ raised[i] # {})
            => Status(i) = "failed" /\ ~Output(i).null

\* C7: a task whose run failed has recorded the failure and ended normally,
\* no exception escaping it.
C7_FailuresNotReraised ==
    \A i \in RunIds :
        (pc[i] \in Ended /\ (returncode[i] > 0 \/ raised[i] \cap {"Project.find", "subprocess.Popen"} # {}))
            => Status(i) = "failed" /\ pc[i] = "returned"

\* C7 as amended: a task whose run failed has recorded the failure and ended
\* by re-raising the exception; only the task of a completed run returns.
C7_FailuresRecordedThenReraised ==
    \A i \in RunIds :
        /\ (pc[i] \in Ended /\ (returncode[i] > 0 \/ raised[i] \cap {"Project.find", "subprocess.Popen"} # {}))
              => Status(i) = "failed" /\ ~Output(i).null /\ pc[i] = "raised"
        /\ pc[i] = "returned" => Status(i) = "completed"

C7_Witness ==
    /\ \E i \in RunIds : pc[i] = "raised" /\ returncode[i] > 0
    /\ \E i \in RunIds : pc[i] = "raised" /\ raised[i] # {}

\* C8: the response to POST /run is sent with the record committed as started
\* without output and the executor not yet invoked, and a GET /status sent
\* while the executor is running is answered with status started.
C8_StartedWhileExecuting ==
    /\ response.kind = "run"
          => /\ Status(response.run_id) = "started"
             /\ Output(response.run_id).null
             /\ pc[response.run_id] = "scheduled"
             /\ popens[response.run_id] = 0
    /\ (response.kind = "status" /\ response.executing)
          => response.status = "started"

\* C9: record ids are pairwise distinct, each record has exactly one task
\* added and at most one executor launched, there are as many records as
\* POST /run requests, and a task on its way to or in the executor has a
\* started record.
C9_OneRunOneRecordOneExecution ==
    /\ \A a, b \in 1..Len(pipeline_runs) :
          a # b => pipeline_runs[a].id # pipeline_runs[b].id
    /\ \A i \in RunIds :
          /\ tasks[i] = (IF Exists(i) THEN 1 ELSE 0)
          /\ popens[i] <= 1
          /\ pc[i] \in {"scheduled", "loaded", "found", "running", "exited"}
                => Status(i) = "started"
    /\ Len(pipeline_runs) = Cardinality({i \in RunIds : pc[i] # "none"})

C9_Witness ==
    /\ Len(pipeline_runs) = MaxRuns
    /\ \E i \in RunIds : pc[i] \in Ended /\ popens[i] = 1
    /\ crashes > 0 /\ up

\* C10: a started record whose task died with the process is never changed
\* by any later step, and its task stays dead.
C10_OrphanStaysStarted ==
    [][\A k \in 1..Len(pipeline_runs) :
          (pipeline_runs[k].status = "started" /\ pc[pipeline_runs[k].id] = "killed")
              => /\ pipeline_runs'[k] = pipeline_runs[k]
                 /\ pc'[pipeline_runs[k].id] = "killed"]_vars

C10_Witness ==
    /\ up
    /\ \E i \in RunIds : pc[i] = "killed" /\ Status(i) = "started"
    /\ \E i \in RunIds : pc[i] \in Ended
    /\ response.kind = "status" /\ response.status = "started"

\* C11: a GET /status/{run_id} step answers an id without a record with the
\* payload "Run not found" and an id with a record with that record's run_id,
\* status, start_time and output as committed, and leaves the table unchanged.
C11_StatusOfUnknownAndKnownId ==
    [][(request # NoRequest /\ request' = NoRequest /\ up')
          => /\ pipeline_runs' = pipeline_runs
             /\ IF Exists(request.run_id)
                THEN /\ response'.kind = "status"
                     /\ response'.run_id = request.run_id
                     /\ response'.status = Row(request.run_id).status
                     /\ response'.start_time = Row(request.run_id).start_time
                     /\ response'.output = Row(request.run_id).output
                ELSE response'.kind = "error"]_vars

C11_Witness ==
    /\ response.kind = "error"
    /\ Len(pipeline_runs) > 0
    /\ \E i \in RunIds : pc[i] \in Ended

\* C12: the rows of a GET /runs response are the records of the table, each
\* exactly once, and no row comes after a row with an earlier start_time.
C12_RunsNewestFirst ==
    response.kind = "runs"
        => /\ Len(response.runs) = Len(pipeline_runs)
           /\ \A k \in 1..Len(pipeline_runs) :
                 Cardinality({a \in 1..Len(response.runs) :
                                 response.runs[a] = pipeline_runs[k]}) = 1
           /\ \A a, b \in 1..Len(response.runs) :
                 response.runs[a].start_time > response.runs[b].start_time => a < b

C12_Witness ==
    /\ response.kind = "runs"
    /\ Len(response.runs) = 2
    /\ response.runs[1].start_time > response.runs[2].start_time
    /\ response.runs[1].status = "started"
    /\ response.runs[2].status \in Terminal

\* C13: runs execute concurrently, without mutual exclusion: while the
\* executor of one run is in flight the service accepts a further POST /run
\* and the scheduled task of another run can start, so that a second executor
\* is launched before the first has exited.
C13_ExecutorsOverlap ==
    \A i \in RunIds :
        pc[i] = "running"
            => /\ (up /\ Len(pipeline_runs) < MaxRuns) => ENABLED run_pipeline
               /\ \A j \in RunIds : (up /\ pc[j] = "scheduled") => ENABLED TaskStart(j)

\* C14: no step changes the id or the start_time of a record, and a step
\* that changes the status or output of a record is a write of that record's
\* own task (at lines 113-115, 121-133 or 139-141).
C14_TaskWritesOwnRecord ==
    [][\A k \in 1..Len(pipeline_runs) :
          /\ pipeline_runs'[k].id = pipeline_runs[k].id
          /\ pipeline_runs'[k].start_time = pipeline_runs[k].start_time
          /\ pipeline_runs'[k] # pipeline_runs[k]
                => /\ pc[pipeline_runs[k].id] \in {"exited", "except"}
                   /\ pc'[pipeline_runs[k].id] \in {"except", "returned", "raised"}
                   /\ \A j \in RunIds \ {pipeline_runs[k].id} : pc'[j] = pc[j]]_vars

C14_Witness ==
    \E i, j \in RunIds :
        /\ i # j
        /\ pc[i] \in Ended /\ Status(i) \in Terminal
        /\ pc[j] = "scheduled" /\ Status(j) = "started" /\ Output(j).null

\* C15: a step in which a handler answers (GET /, GET /runs, GET /status or
\* POST /run) leaves every existing record as it is; the three GET handlers
\* leave the table as it is and POST /run adds exactly one record to it.
C15_FacadeReadsAndCreates ==
    [][response'.kind # "none"
          => /\ \A k \in 1..Len(pipeline_runs) :
                   /\ k <= Len(pipeline_runs')
                   /\ pipeline_runs'[k] = pipeline_runs[k]
             /\ IF response'.kind = "run"
                THEN Len(pipeline_runs') = Len(pipeline_runs) + 1
                ELSE pipeline_runs' = pipeline_runs]_vars

C15_Witness ==
    /\ response.kind = "run"
    /\ Len(pipeline_runs) = 2
    /\ pipeline_runs[1].status \in Terminal
    /\ crashes > 0

\* C16: in every committed state a record has no output exactly when its
\* status is started.
C16_OutputAbsentIffStarted ==
    \A k \in 1..Len(pipeline_runs) :
        pipeline_runs[k].output.null <=> pipeline_runs[k].status = "started"

C16_Witness ==
    /\ \E i \in RunIds : Status(i) = "started" /\ pc[i] = "exited"
    /\ \E i \in RunIds : Status(i) = "completed" /\ ~Output(i).null

\* C17: the page's polling of a run stops only once the run's status has
\* left started: while the record is started a timer or a request of
\* updateStatus is pending, also after a poll that failed.
C17_PollsWhileStarted ==
    page.state = "stopped" => Status(page.run_id) # "started"

\* C18: a task that is scheduled or running has a record: the record exists
\* when the task loads it and in each of its branches.
C18_TaskHasRecord ==
    \A i \in RunIds : pc[i] \in InTask \cup {"scheduled"} => Exists(i)

C18_Witness ==
    /\ \E i \in RunIds : pc[i] = "except" /\ Exists(i) /\ writes[i] = 1
    /\ \E i \in RunIds : pc[i] = "returned"
====
